---- MODULE Spec2Model ----
(***************************************************************************)
(* Model of odoo_extractor/extractor.py (class OdooModuleExtractor).       *)
(*                                                                         *)
(* Strings that the code inspects character by character (file names,     *)
(* extensions, exclusion and priority patterns) are sequences of           *)
(* one-character strings, so that endswith, Path.suffix, str.replace,      *)
(* fnmatch and the ordering used by sorted() are computed the way the code *)
(* computes them.  A text written with one write() call is one "line"      *)
(* record [k |-> tag, v |-> value]; an output file is a sequence of lines. *)
(***************************************************************************)
EXTENDS Integers, Sequences, FiniteSets, TLC

----------------------------------------------------------------------------
(* Bounds of the model *)

\* number of extract() calls in one behaviour
MaxRuns == 2

\* largest number of <record> elements in a modelled XML file
MaxRecords == 6

----------------------------------------------------------------------------
(* Characters and strings *)

\* the characters used by the model, in code point order
Alphabet ==
  << "*", ".", "/", "D", "S", "\\", "_",
     "a", "b", "c", "d", "e", "f", "g", "h", "i", "j", "k", "l", "m",
     "n", "o", "p", "q", "r", "s", "t", "u", "v", "w", "x", "y", "z" >>

\* ord(): the position in the alphabet stands for the code point
CodePoints ==
  [c \in {Alphabet[i] : i \in 1..Len(Alphabet)} |->
     CHOOSE i \in 1..Len(Alphabet) : Alphabet[i] = c]

CharCode(c) == CodePoints[c]

\* str.__lt__ : lexicographic by code point, a proper prefix is smaller
RECURSIVE StrLess(_, _)
StrLess(a, b) ==
  IF b = <<>> THEN FALSE
  ELSE IF a = <<>> THEN TRUE
  ELSE IF Head(a) = Head(b) THEN StrLess(Tail(a), Tail(b))
  ELSE CharCode(Head(a)) < CharCode(Head(b))

\* str.endswith
EndsWith(s, suf) ==
  /\ Len(suf) <= Len(s)
  /\ SubSeq(s, Len(s) - Len(suf) + 1, Len(s)) = suf

\* str.startswith("*")
StartsWithStar(s) == s # <<>> /\ Head(s) = "*"

\* str.rfind(".") with positions counted from 1; 0 when there is no dot
RFindDot(s) ==
  LET dots == {i \in 1..Len(s) : s[i] = "."}
  IN  IF dots = {} THEN 0 ELSE CHOOSE i \in dots : \A j \in dots : j <= i

\* pathlib PurePath.suffix : the last dot and what follows it, unless the
\* dot is the first or the last character of the name
Suffix(name) ==
  LET i == RFindDot(name)
  IN  IF 1 < i /\ i < Len(name) THEN SubSeq(name, i, Len(name)) ELSE <<>>

\* str(PurePosixPath) of a relative path : the parts joined by "/"
RECURSIVE PathStr(_)
PathStr(parts) ==
  IF parts = <<>> THEN <<>>
  ELSE IF Len(parts) = 1 THEN parts[1]
  ELSE parts[1] \o <<"/">> \o PathStr(Tail(parts))

\* rel_str.replace("\\\\", "/") : every pair of backslashes becomes a slash
RECURSIVE ReplaceBackslashes(_)
ReplaceBackslashes(s) ==
  IF Len(s) < 2 THEN s
  ELSE IF s[1] = "\\" /\ s[2] = "\\"
       THEN <<"/">> \o ReplaceBackslashes(SubSeq(s, 3, Len(s)))
       ELSE <<s[1]>> \o ReplaceBackslashes(Tail(s))

\* fnmatch.fnmatch on POSIX : "*" stands for any run of characters ("/"
\* included), every other character of these patterns for itself, and the
\* whole string has to match
RECURSIVE FnMatch(_, _)
FnMatch(s, pat) ==
  IF pat = <<>> THEN s = <<>>
  ELSE IF Head(pat) = "*"
       THEN FnMatch(s, Tail(pat)) \/ (s # <<>> /\ FnMatch(Tail(s), pat))
       ELSE s # <<>> /\ Head(s) = Head(pat) /\ FnMatch(Tail(s), Tail(pat))

HasStar(pat) == \E i \in 1..Len(pat) : pat[i] = "*"

----------------------------------------------------------------------------
(* Class-level tables *)

INCLUDE_EXTENSIONS ==
  { <<".", "p", "y">>, <<".", "x", "m", "l">>, <<".", "c", "s", "v">>,
    <<".", "y", "m", "l">>, <<".", "y", "a", "m", "l">>, <<".", "j", "s">>,
    <<".", "s", "c", "s", "s">>, <<".", "c", "s", "s">>,
    <<".", "h", "t", "m", "l">>, <<".", "t", "x", "t">> }

EXCLUDE_PATTERNS ==
  { <<"_", "_", "p", "y", "c", "a", "c", "h", "e", "_", "_">>,
    <<".", "g", "i", "t">>, <<".", "i", "d", "e", "a">>,
    <<".", "v", "s", "c", "o", "d", "e">>,
    <<"*", ".", "p", "y", "c">>, <<"*", ".", "p", "y", "o">>,
    <<".", "D", "S", "_", "S", "t", "o", "r", "e">>,
    <<"n", "o", "d", "e", "_", "m", "o", "d", "u", "l", "e", "s">>,
    <<"v", "e", "n", "v">>, <<".", "v", "e", "n", "v">> }

\* the dict keeps declaration order
PRIORITY_FILES ==
  << [pattern |-> <<"_","_","m","a","n","i","f","e","s","t","_","_",".","p","y">>, priority |-> 1],
     [pattern |-> <<"_","_","i","n","i","t","_","_",".","p","y">>, priority |-> 2],
     [pattern |-> <<"m","o","d","e","l","s","/","*",".","p","y">>, priority |-> 3],
     [pattern |-> <<"v","i","e","w","s","/","*",".","x","m","l">>, priority |-> 4],
     [pattern |-> <<"s","e","c","u","r","i","t","y","/","*",".","c","s","v">>, priority |-> 5],
     [pattern |-> <<"d","a","t","a","/","*",".","x","m","l">>, priority |-> 6],
     [pattern |-> <<"w","i","z","a","r","d","/","*",".","p","y">>, priority |-> 7],
     [pattern |-> <<"c","o","n","t","r","o","l","l","e","r","s","/","*",".","p","y">>, priority |-> 8],
     [pattern |-> <<"s","t","a","t","i","c","/","s","r","c","/","*",".","j","s">>, priority |-> 9],
     [pattern |-> <<"r","e","p","o","r","t","s","/","*",".","x","m","l">>, priority |-> 10] >>

\* _get_file_priority: the value returned when no pattern matches
DefaultPriority == 999

\* _write_python_file: how many function names are listed
FunctionsShown == 10

\* _write_xml_file: how many record ids are listed
RecordsShown == 5

\* width of the separator written around a section
SeparatorWidth == 80

----------------------------------------------------------------------------
(* _get_file_priority *)

\* the first of a set of table positions, 0 when the set is empty: the
\* loops return at the first entry that matches
FirstOf(hits) ==
  IF hits = {} THEN 0 ELSE CHOOSE i \in hits : \A j \in hits : i <= j

GetFilePriority(rel) ==
  LET rel_str == ReplaceBackslashes(PathStr(rel))
      entries == 1..Len(PRIORITY_FILES)
      exact == FirstOf({i \in entries : PRIORITY_FILES[i].pattern = rel_str})
      glob  == FirstOf({i \in entries :
                          /\ HasStar(PRIORITY_FILES[i].pattern)
                          /\ FnMatch(rel_str, PRIORITY_FILES[i].pattern)})
  IN  IF exact # 0 THEN PRIORITY_FILES[exact].priority
      ELSE IF glob # 0 THEN PRIORITY_FILES[glob].priority
      ELSE DefaultPriority

----------------------------------------------------------------------------
(* The file system seen by the extractor *)

\* A node of the tree below the module root.
\*   kind  : "absent", "dir", "file" (regular file) or "other" (an entry
\*           that is neither, such as a socket or a dangling link)
\*   list  : outcome of iterdir() on a directory, "ok" or "perm"
\*   stat  : outcome of stat() on the entry: "ok", "perm" (PermissionError,
\*           the parent is not searchable) or "gone" (FileNotFoundError:
\*           removed since the listing, or a dangling link)
\*   read  : outcome of open(...,"r",encoding="utf-8").read(): "text",
\*           "binary" (UnicodeDecodeError) or "fail" (OSError)
\*   cksum : outcome of open(...,"rb").read(): "ok" or "fail"
\*   size  : st_size
\*   bytes : how many bytes a read of the entry returns
\*   info  : what ast.parse / ast.literal_eval / ET.fromstring find in it
NoInfo ==
  [parse |-> FALSE, literal |-> "fail", classes |-> <<>>, functions |-> <<>>,
   root |-> "", records |-> <<>>, templates |-> 0]

Absent ==
  [kind |-> "absent", list |-> "ok", stat |-> "gone", read |-> "fail",
   cksum |-> "fail", size |-> 0, bytes |-> 0, info |-> NoInfo]

DirNode(list) ==
  [kind |-> "dir", list |-> list, stat |-> "ok", read |-> "fail",
   cksum |-> "fail", size |-> 0, bytes |-> 0, info |-> NoInfo]

FileNode(size, read, info) ==
  [kind |-> "file", list |-> "ok", stat |-> "ok", read |-> read,
   cksum |-> IF read = "fail" THEN "fail" ELSE "ok", size |-> size,
   bytes |-> size, info |-> info]

\* a socket: stat succeeds, open fails
OtherNode ==
  [kind |-> "other", list |-> "ok", stat |-> "ok", read |-> "fail",
   cksum |-> "fail", size |-> 0, bytes |-> 0, info |-> NoInfo]

\* a dangling link, or an entry removed right after the listing
GoneNode ==
  [kind |-> "other", list |-> "ok", stat |-> "gone", read |-> "fail",
   cksum |-> "fail", size |-> 0, bytes |-> 0, info |-> NoInfo]

\* a link whose target lies in a directory that may not be searched
Unsearchable(node) == [node EXCEPT !.stat = "perm"]

PyInfo(classes, functions) ==
  [NoInfo EXCEPT !.parse = TRUE, !.classes = classes, !.functions = functions]

XmlInfo(root, records, templates) ==
  [NoInfo EXCEPT !.parse = TRUE, !.root = root, !.records = records,
                 !.templates = templates]

\* names used in the modelled trees
nGit      == <<".", "g", "i", "t">>
nInit     == <<"_", "_", "i", "n", "i", "t", "_", "_", ".", "p", "y">>
nManifest == <<"_", "_", "m", "a", "n", "i", "f", "e", "s", "t", "_", "_", ".", "p", "y">>
nABin     == <<"a", ".", "b", "i", "n">>
nBTxt     == <<"b", ".", "t", "x", "t">>
nModels   == <<"m", "o", "d", "e", "l", "s">>
nAPy      == <<"a", ".", "p", "y">>
nPTxt     == <<"p", ".", "t", "x", "t">>
nSub      == <<"s", "u", "b">>
nYPy      == <<"y", ".", "p", "y">>
nTPyc     == <<"t", ".", "p", "y", "c">>
nDPy      == <<"d", ".", "p", "y">>
nCPy      == <<"c", ".", "p", "y">>
nViews    == <<"v", "i", "e", "w", "s">>
nVXml     == <<"v", ".", "x", "m", "l">>
nZout     == <<"z", "o", "u", "t">>

\* self.module_name : the name of the module's directory
module_name == <<"m">>

StructureName == module_name \o <<"_","s","t","r","u","c","t","u","r","e",".","t","x","t">>
ContentName   == module_name \o <<"_","c","o","n","t","e","n","t",".","t","x","t">>
SummaryName   == module_name \o <<"_","s","u","m","m","a","r","y",".","j","s","o","n">>
IndexName     == module_name \o <<"_","i","n","d","e","x",".","j","s","o","n">>

\* paths are sequences of names below the module root; <<>> is the root
Root == <<>>

ModulePaths ==
  { Root,
    <<nGit>>, <<nGit, nCPy>>,
    <<nInit>>, <<nManifest>>, <<nABin>>, <<nBTxt>>,
    <<nModels>>, <<nModels, nAPy>>, <<nModels, nPTxt>>,
    <<nModels, nSub>>, <<nModels, nSub, nYPy>>,
    <<nTPyc>>, <<nTPyc, nDPy>>,
    <<nViews>>, <<nViews, nVXml>> }

\* where the output directory lies when it is inside the module root
OutDir == <<nZout>>

OutPaths ==
  { OutDir, OutDir \o <<StructureName>>, OutDir \o <<ContentName>>,
    OutDir \o <<SummaryName>>, OutDir \o <<IndexName>> }

Name(p)   == p[Len(p)]

----------------------------------------------------------------------------
(* pathlib primitives; a result is "True", "False", a size, or the name of *)
(* the exception the call raises                                           *)

\* Path.is_file(): ENOENT is swallowed, EACCES is raised
IsFile(t, p) ==
  IF t[p].stat = "perm" THEN "PermissionError"
  ELSE IF t[p].stat = "ok" /\ t[p].kind = "file" THEN "True"
  ELSE "False"

\* Path.is_dir(): ENOENT is swallowed, EACCES is raised
IsDir(t, p) ==
  IF t[p].stat = "perm" THEN "PermissionError"
  ELSE IF t[p].stat = "ok" /\ t[p].kind = "dir" THEN "True"
  ELSE "False"

\* Path.stat(): "ok" or the exception raised
Stat(t, p) ==
  IF t[p].stat = "perm" THEN "PermissionError"
  ELSE IF t[p].stat = "gone" THEN "FileNotFoundError"
  ELSE "ok"

\* the entries iterdir() yields for a directory
Children(t, p) ==
  {q \in DOMAIN t : /\ Len(q) = Len(p) + 1
                    /\ SubSeq(q, 1, Len(p)) = p
                    /\ t[q].kind # "absent"}

\* sorted() of sibling paths: by name.  Each path is placed after the
\* paths with a smaller name.
RECURSIVE SortedPaths(_)
SortedPaths(S) ==
  IF S = {} THEN <<>>
  ELSE LET q    == CHOOSE x \in S : TRUE
           rest == SortedPaths(S \ {q})
           n    == Cardinality({i \in 1..Len(rest) :
                                  StrLess(Name(rest[i]), Name(q))})
       IN  SubSeq(rest, 1, n) \o <<q>> \o SubSeq(rest, n + 1, Len(rest))

----------------------------------------------------------------------------
(* _should_exclude *)

\* the loop over EXCLUDE_PATTERNS
MatchesExcludePattern(name) ==
  \E pattern \in EXCLUDE_PATTERNS :
     IF StartsWithStar(pattern)
     THEN EndsWith(name, Tail(pattern))
     ELSE name = pattern

ShouldExclude(t, p) ==
  IF MatchesExcludePattern(Name(p)) THEN "True"
  ELSE LET f == IsFile(t, p)
       IN  IF f = "PermissionError" THEN "PermissionError"
           ELSE IF f = "True" /\ Suffix(Name(p)) \notin INCLUDE_EXTENSIONS
                THEN "True"
                ELSE "False"

----------------------------------------------------------------------------
(* _walk_directory *)

\* the dict appended for an entry; a directory's dict has no size key,
\* which is 0 here
DirItem(p)        == [type |-> "dir", name |-> Name(p), path |-> p, size |-> 0]
FileItem(p, size) == [type |-> "file", name |-> Name(p), path |-> p, size |-> size]

\* a variant of the except clause that gives up the items collected so far
CatchPermissionError_DropsItems(r) ==
  IF r.exc = "PermissionError" THEN [items |-> <<>>, exc |-> "none"] ELSE r

\* except PermissionError: the warning is printed and the items appended
\* so far are returned; any other exception leaves the method
CatchPermissionError(r) ==
  IF r.exc = "PermissionError" THEN [items |-> r.items, exc |-> "none"] ELSE r

\* WalkItems is the body of the for loop run over the remaining entries,
\* WalkDirectory the whole method.  The result holds the items appended and
\* the exception that ends the loop, "none" when it runs to its end.
RECURSIVE WalkDirectory(_, _), WalkItems(_, _)
WalkItems(t, kids) ==
  IF kids = <<>> THEN [items |-> <<>>, exc |-> "none"]
  ELSE
    LET item == Head(kids)
        ex   == ShouldExclude(t, item)
        d    == IsDir(t, item)
        st   == Stat(t, item)
        sub  == WalkDirectory(t, item)
        rest == WalkItems(t, Tail(kids))
    IN  IF ex = "PermissionError" THEN [items |-> <<>>, exc |-> ex]
        ELSE IF ex = "True" THEN rest
        ELSE IF d = "PermissionError" THEN [items |-> <<>>, exc |-> d]
        ELSE IF d = "True"
             THEN IF sub.exc # "none"
                  THEN [items |-> <<DirItem(item)>> \o sub.items, exc |-> sub.exc]
                  ELSE [items |-> <<DirItem(item)>> \o sub.items \o rest.items,
                        exc |-> rest.exc]
        ELSE IF st # "ok" THEN [items |-> <<>>, exc |-> st]
        ELSE [items |-> <<FileItem(item, t[item].size)>> \o rest.items,
              exc |-> rest.exc]

WalkDirectory(t, path) ==
  IF t[path].list = "perm"
  THEN CatchPermissionError([items |-> <<>>, exc |-> "PermissionError"])
  ELSE CatchPermissionError(WalkItems(t, SortedPaths(Children(t, path))))

----------------------------------------------------------------------------
(* Rendering of one file: _write_file_content and the three writers *)

\* one write() call
Line(k, v) == [k |-> k, v |-> v]

\* "\n" + "=" * 80 + "\n"
Separator == Line("SEP", SeparatorWidth)

\* what f.read() returns: the bytes of the entry, named by where they come
\* from and how many they are
Content(t, p) == [path |-> p, bytes |-> t[p].bytes]

NoContent == [path |-> <<>>, bytes |-> 0]

\* the exception open()/read() raises
ReadError(t, p) ==
  IF t[p].read = "binary" THEN "UnicodeDecodeError" ELSE "OSError"

Min(a, b) == IF a < b THEN a ELSE b

WritePythonFile(t, p) ==
  IF t[p].read # "text"
  THEN << Line("ERROR", ReadError(t, p)) >>
  ELSE LET classes   == t[p].info.classes
           functions == t[p].info.functions
           parsed ==
             IF t[p].info.parse /\ (classes # <<>> \/ functions # <<>>)
             THEN << Line("PARSED_INFO", 0) >>
                  \o (IF classes # <<>>
                      THEN << Line("CLASSES", classes) >> ELSE <<>>)
                  \o (IF functions # <<>>
                      THEN << Line("FUNCTIONS",
                                [names |-> SubSeq(functions, 1,
                                             Min(FunctionsShown, Len(functions))),
                                 more  |-> Len(functions) > FunctionsShown]) >>
                      ELSE <<>>)
             ELSE <<>>
       IN  parsed \o << Line("CONTENT", 0), Line("RAW", Content(t, p)) >>

\* r.get("id", "no-id")
RecordId(r) == IF r.has_id THEN r.id ELSE "no-id"

WriteXmlFile(t, p) ==
  IF t[p].read # "text"
  THEN << Line("ERROR", ReadError(t, p)) >>
  ELSE LET root      == t[p].info.root
           records   == t[p].info.records
           templates == t[p].info.templates
           parsed ==
             IF t[p].info.parse /\ (root = "odoo" \/ root = "openerp")
             THEN << Line("PARSED_INFO", 0) >>
                  \o (IF records # <<>>
                      THEN << Line("RECORDS", Len(records)),
                              Line("RECORD_IDS",
                                [names |-> [i \in 1..Min(RecordsShown, Len(records))
                                              |-> RecordId(records[i])],
                                 more  |-> Len(records) > RecordsShown]) >>
                      ELSE <<>>)
                  \o (IF templates # 0
                      THEN << Line("TEMPLATES", templates) >> ELSE <<>>)
             ELSE <<>>
       IN  parsed \o << Line("CONTENT", 0), Line("RAW", Content(t, p)) >>

WriteGenericFile(t, p) ==
  IF t[p].read = "text"
  THEN << Line("CONTENT", 0), Line("RAW", Content(t, p)) >>
  ELSE << Line("BINARY", 0) >>

\* hashlib.md5(f.read()).hexdigest()[:8], or "error".  The digest is kept
\* as the bytes it was computed from.
CalculateChecksum(t, p) ==
  IF t[p].cksum = "ok"
  THEN [tag |-> "md5", data |-> Content(t, p)]
  ELSE [tag |-> "error", data |-> NoContent]

\* sum(f["size"] for f in index)
RECURSIVE SumSizes(_)
SumSizes(index) ==
  IF index = <<>> THEN 0 ELSE Head(index).size + SumSizes(Tail(index))

\* a variant that counts only the files of the current call
AddSizes_PerRun(total0, records) == SumSizes(records)

\* self.total_size += file_item["size"], for every record appended
AddSizes(total0, records) == total0 + SumSizes(records)

\* the text written for one file, and the record appended to file_index
WriteFileContent(t, file_item) ==
  LET p   == file_item.path
      ext == Suffix(Name(p))
      body == IF ext = <<".", "p", "y">> THEN WritePythonFile(t, p)
              ELSE IF ext = <<".", "x", "m", "l">> THEN WriteXmlFile(t, p)
              ELSE WriteGenericFile(t, p)
  IN  [lines  |-> << Separator,
                     Line("FILE", PathStr(p)),
                     Line("SIZE", file_item.size),
                     Line("TYPE", ext) >>
                  \o body \o << Separator >>,
       record |-> [path     |-> PathStr(p),
                   size     |-> file_item.size,
                   type     |-> ext,
                   checksum |-> CalculateChecksum(t, p)]]

----------------------------------------------------------------------------
(* _extract_files: collecting and sorting *)

\* the items with type "file", in walk order
FilesOf(items) == SelectSeq(items, LAMBDA it : it.type = "file")

\* list.sort(key=...): the key of every element is computed once, and the
\* sort is stable.  Insertion after the last element whose key is not
\* larger keeps equal keys in their original order.
InsertByKey(sorted, e) ==
  LET before == {i \in 1..Len(sorted) : sorted[i].key <= e.key}
      n == IF before = {} THEN 0
           ELSE CHOOSE i \in before : \A j \in before : j <= i
  IN  SubSeq(sorted, 1, n) \o <<e>> \o SubSeq(sorted, n + 1, Len(sorted))

RECURSIVE SortKeyed(_)
SortKeyed(s) ==
  IF s = <<>> THEN <<>>
  ELSE InsertByKey(SortKeyed(SubSeq(s, 1, Len(s) - 1)), s[Len(s)])

SortByPriority(files) ==
  LET keyed  == [i \in 1..Len(files) |->
                   [key |-> GetFilePriority(files[i].path), item |-> files[i]]]
      sorted == SortKeyed(keyed)
  IN  [i \in 1..Len(sorted) |-> sorted[i].item]

----------------------------------------------------------------------------
(* Output files *)

\* size of a written text.  The bytes of the fixed headers are not counted
\* one by one: every write() counts 1, a copied file body counts its bytes.
RECURSIVE TextLen(_)
TextLen(lines) ==
  IF lines = <<>> THEN 0
  ELSE (IF Head(lines).k = "RAW" THEN Head(lines).v.bytes ELSE 1)
       + TextLen(Tail(lines))

\* n / d rounded to the nearest integer, ties to even: what the format
\* ".1f" and round(x, 2) do with the scaled value
RoundHalfEven(n, d) ==
  LET q == n \div d
      r == n % d
  IN  IF 2 * r > d \/ (2 * r = d /\ q % 2 = 1) THEN q + 1 ELSE q

\* f"{size / 1024:.1f}", in tenths of a KB
SizeKB(size) == RoundHalfEven(size * 10, 1024)

\* round(total_size / 1024 / 1024, 2), in hundredths of a MB
SizeMB(size) == RoundHalfEven(size * 100, 1024 * 1024)

\* the lines _generate_tree_structure writes for the walked items
TreeLines(items) ==
  [i \in 1..Len(items) |->
     LET level == Len(items[i].path) - 1
     IN  IF items[i].type = "dir"
         THEN Line("DIR", [indent |-> 2 * level, name |-> items[i].name])
         ELSE Line("ENTRY", [indent |-> 2 * level, name |-> items[i].name,
                             kb |-> SizeKB(items[i].size)])]

StructureHeader(time) == << Line("TITLE", module_name), Line("TIME", time) >>

ContentHeader(time, n) ==
  << Line("TITLE", module_name), Line("TIME", time), Line("COUNT", n) >>

\* _count_file_types
CountFileTypes(index) ==
  LET types == {index[i].type : i \in 1..Len(index)}
  IN  [e \in types |-> Cardinality({i \in 1..Len(index) : index[i].type = e})]

NoFile == [exists |-> FALSE, lines |-> <<>>]
TextFile(lines) == [exists |-> TRUE, lines |-> lines]

NoStatistics ==
  [total_files |-> 0, total_size_bytes |-> 0, total_size_mb |-> 0,
   file_types |-> <<>>]

NoSummary ==
  [exists |-> FALSE, module_name |-> <<>>, extraction_date |-> 0,
   module_info |-> "empty", statistics |-> NoStatistics]

NoIndex ==
  [exists |-> FALSE, module |-> <<>>, files |-> <<>>, total_files |-> 0,
   total_size |-> 0]

\* the output directory right after it has been created
EmptyDisk ==
  [structure |-> NoFile, content |-> NoFile, summary |-> NoSummary,
   index |-> NoIndex]

----------------------------------------------------------------------------
(* The tree a walk sees: the module, and the output directory when it lies *)
(* inside the module root                                                   *)

TextNode(file, size, bytes) ==
  IF file.exists
  THEN [FileNode(size, "text", NoInfo) EXCEPT !.bytes = bytes]
  ELSE Absent

JsonNode(file) ==
  IF file.exists THEN FileNode(1, "text", NoInfo) ELSE Absent

\* structSize is what stat() reports for the structure listing at the time
\* of the walk
View(tree, inside, d, structSize) ==
  IF ~inside THEN tree
  ELSE [p \in ModulePaths \cup OutPaths |->
          IF p \in ModulePaths THEN tree[p]
          ELSE IF p = OutDir THEN DirNode("ok")
          ELSE IF Name(p) = StructureName
               THEN TextNode(d.structure, structSize, TextLen(d.structure.lines))
          ELSE IF Name(p) = ContentName
               THEN TextNode(d.content, TextLen(d.content.lines),
                             TextLen(d.content.lines))
          ELSE IF Name(p) = SummaryName THEN JsonNode(d.summary)
          ELSE JsonNode(d.index)]

ContentPath == OutDir \o <<ContentName>>

\* The loop of _extract_files over the sorted files: the text of the bundle
\* and the records appended to file_index.  The content bundle is open for
\* writing while the files are read; when it is itself one of the files, a
\* read of it returns what has reached the disk by then: nothing, or
\* (flushed) the text written so far.
RECURSIVE RenderAll(_, _, _, _, _)
RenderAll(t, files, written, records, flushed) ==
  IF files = <<>> THEN [lines |-> written, records |-> records]
  ELSE LET file == Head(files)
           tt == IF file.path = ContentPath
                 THEN [t EXCEPT ![ContentPath].bytes =
                                  IF flushed THEN TextLen(written) ELSE 0]
                 ELSE t
       IN  \* the section is written first, the record appended after it
           LET one == WriteFileContent(tt, file)
           IN  RenderAll(t, Tail(files), written \o one.lines,
                         Append(records, one.record), flushed)

----------------------------------------------------------------------------
(* State *)

VARIABLES
  fs,           \* the module's tree: ModulePaths -> node
  out_inside,   \* TRUE when self.output_dir lies inside the module root
  disk,         \* the four files of the output directory
  module_info,  \* self.module_info: "empty" ({}), "dict" or "other"
  file_index,   \* self.file_index
  total_size,   \* self.total_size
  now,          \* the clock read by datetime.now()
  calls,        \* how many times extract() was called on this extractor
  history       \* one entry per extract() call, oldest first

vars ==
  << fs, out_inside, disk, module_info, file_index, total_size, now, calls,
     history >>

----------------------------------------------------------------------------
(* The modelled module trees *)

FunctionNames ==
  << "f_a", "f_b", "f_c", "f_d", "f_e", "f_f", "f_g", "f_h", "f_i", "f_j",
     "f_k", "f_l" >>

IdNames == << "id_a", "id_b", "id_c", "id_d", "id_e", "id_f", "id_g", "id_h" >>

\* n <record> elements, the second of them without an id attribute
Records(n) == [i \in 1..n |-> [has_id |-> i # 2, id |-> IdNames[i]]]

\* a file holding a literal: ast.literal_eval gives a dict or something else
LiteralFile(size, literal) ==
  [FileNode(size, "text", PyInfo(<<>>, <<>>)) EXCEPT !.info.literal = literal]

ManifestChoices == { Absent, LiteralFile(32, "dict"), LiteralFile(9, "other") }

InitPyChoices ==
  { FileNode(3, "text", PyInfo(<<>>, <<>>)), FileNode(3, "binary", NoInfo) }

ABinChoices == { FileNode(5, "text", NoInfo), OtherNode, GoneNode }

BTxtChoices == { FileNode(256, r, NoInfo) : r \in {"text", "binary", "fail"} }

\* the models directory and its entry p.txt
ModelsChoices ==
  { [dir |-> DirNode("ok"),   ptxt |-> FileNode(154, "text", NoInfo)],
    [dir |-> DirNode("ok"),   ptxt |-> Unsearchable(FileNode(154, "text", NoInfo))],
    [dir |-> DirNode("perm"), ptxt |-> FileNode(154, "text", NoInfo)] }

XmlChoices ==
  { FileNode(40, "text", XmlInfo("odoo", Records(0), 0)),
    FileNode(40, "text", XmlInfo("odoo", Records(0), 1)),
    FileNode(40, "text", XmlInfo("odoo", Records(2), 0)),
    FileNode(40, "text", XmlInfo("odoo", Records(MaxRecords), 1)),
    FileNode(40, "text", XmlInfo("openerp", Records(2), 0)),
    FileNode(40, "text", XmlInfo("data", Records(2), 1)),
    FileNode(40, "text", NoInfo),
    FileNode(40, "binary", NoInfo) }

Tree(manifest, initpy, abin, btxt, models, vxml) ==
  [p \in ModulePaths |->
     CASE p = Root                      -> DirNode("ok")
       [] p = <<nGit>>                  -> DirNode("ok")
       [] p = <<nGit, nCPy>>            -> FileNode(4, "text", PyInfo(<<>>, <<>>))
       [] p = <<nInit>>                 -> initpy
       [] p = <<nManifest>>             -> manifest
       [] p = <<nABin>>                 -> abin
       [] p = <<nBTxt>>                 -> btxt
       [] p = <<nModels>>               -> models.dir
       [] p = <<nModels, nAPy>>         ->
            FileNode(2000, "text", PyInfo(<<"A">>, FunctionNames))
       [] p = <<nModels, nPTxt>>        -> models.ptxt
       [] p = <<nModels, nSub>>         -> DirNode("ok")
       [] p = <<nModels, nSub, nYPy>>   -> FileNode(8, "text", NoInfo)
       [] p = <<nTPyc>>                 -> DirNode("ok")
       [] p = <<nTPyc, nDPy>>           -> FileNode(2, "text", PyInfo(<<>>, <<>>))
       [] p = <<nViews>>                -> DirNode("ok")
       [] p = <<nViews, nVXml>>         -> vxml]

\* The trees a behaviour may start from: every combination of the entries
\* that can fail, with one XML file; and every XML file, in a tree whose
\* other entries are plain.
ModuleTrees ==
  { Tree(manifest, initpy, abin, btxt, models,
         FileNode(40, "text", XmlInfo("odoo", Records(MaxRecords), 1))) :
      manifest \in ManifestChoices, initpy \in InitPyChoices,
      abin \in ABinChoices, btxt \in BTxtChoices, models \in ModelsChoices }
  \cup
  { Tree(LiteralFile(32, "dict"), FileNode(3, "text", PyInfo(<<>>, <<>>)),
         FileNode(5, "text", NoInfo), FileNode(256, "text", NoInfo),
         [dir |-> DirNode("ok"), ptxt |-> FileNode(154, "text", NoInfo)],
         vxml) :
      vxml \in XmlChoices }

----------------------------------------------------------------------------
(* __init__ *)

\* The state after OdooModuleExtractor(module_path, output_dir): the output
\* directory exists, nothing has been extracted.
Init ==
  /\ fs \in ModuleTrees
  /\ out_inside \in BOOLEAN
  /\ disk = EmptyDisk
  /\ module_info = "empty"
  /\ file_index = <<>>
  /\ total_size = 0
  /\ now = 0
  /\ calls = 0
  /\ history = <<>>

\* A new extractor for the same module and output directory replaces the
\* used one; mkdir(exist_ok=True) leaves the existing directory as it is.
New ==
  /\ calls > 0
  /\ Len(history) < MaxRuns
  /\ module_info' = "empty"
  /\ file_index' = <<>>
  /\ total_size' = 0
  /\ calls' = 0
  /\ UNCHANGED << fs, out_inside, disk, now, history >>

----------------------------------------------------------------------------
(* extract *)

\* _extract_manifest: the value of self.module_info afterwards
ExtractManifest(t, old) ==
  LET m == t[<<nManifest>>]
  IN  IF m.kind # "absent" /\ m.stat = "ok"
      THEN IF m.read = "text" /\ m.info.literal # "fail"
           THEN m.info.literal
           ELSE "empty"
      ELSE old

\* _generate_summary: the dict written to the summary file.  The .get()
\* calls need self.module_info to be a dict.
SummaryOf(info, index, total, time) ==
  [exists |-> TRUE, module_name |-> module_name, extraction_date |-> time,
   module_info |-> info,
   statistics |-> [total_files |-> Len(index),
                   total_size_bytes |-> total,
                   total_size_mb |-> SizeMB(total),
                   file_types |-> CountFileTypes(index)]]

\* _create_index: the dict written to the index file
IndexOf(index, total) ==
  [exists |-> TRUE, module |-> module_name, files |-> index,
   total_files |-> Len(index), total_size |-> total]

\* One call of extract() on an extractor with the fields info0, index0,
\* total0, at time `time`, with the tree `tree` and the output directory
\* holding d0: the fields and the output directory afterwards, and the
\* exception that ended the call ("none" when it returned).
ExtractRun(tree, inside, d0, info0, index0, total0, time, flushed) ==
  LET \* 1. _extract_manifest
      info  == ExtractManifest(tree, info0)
      \* 2. _generate_tree_structure: the file is opened (and emptied), the
      \*    header stays in the writer's buffer during the walk
      d1    == [d0 EXCEPT !.structure = TextFile(<<>>)]
      walk1 == WalkDirectory(View(tree, inside, d1, 0), Root)
      d1x   == [d0 EXCEPT !.structure = TextFile(StructureHeader(time))]
      d2    == [d0 EXCEPT !.structure =
                  TextFile(StructureHeader(time) \o TreeLines(walk1.items))]
      \* 3. _extract_files: walk, sort, then open the bundle and render
      t2    == View(tree, inside, d2, TextLen(d2.structure.lines))
      walk2 == WalkDirectory(t2, Root)
      all_files == SortByPriority(FilesOf(walk2.items))
      out   == RenderAll(t2, all_files, ContentHeader(time, Len(all_files)),
                         <<>>, flushed)
      d3    == [d2 EXCEPT !.content = TextFile(out.lines)]
      index == index0 \o out.records
      total == AddSizes(total0, out.records)
      \* 4. _generate_summary, 5. _create_index
      d5    == [d3 EXCEPT !.summary = SummaryOf(info, index, total, time),
                          !.index = IndexOf(index, total)]
      selfread == \E i \in 1..Len(all_files) : all_files[i].path = ContentPath
  IN  IF walk1.exc # "none"
      THEN [exc |-> walk1.exc, disk |-> d1x, module_info |-> info,
            file_index |-> index0, total_size |-> total0, selfread |-> FALSE]
      ELSE IF walk2.exc # "none"
      THEN [exc |-> walk2.exc, disk |-> d2, module_info |-> info,
            file_index |-> index0, total_size |-> total0, selfread |-> FALSE]
      ELSE IF info = "other"
      THEN [exc |-> "AttributeError", disk |-> d3, module_info |-> info,
            file_index |-> index, total_size |-> total, selfread |-> selfread]
      ELSE [exc |-> "none", disk |-> d5, module_info |-> info,
            file_index |-> index, total_size |-> total, selfread |-> selfread]

Extract ==
  /\ Len(history) < MaxRuns
  /\ \E flushed \in BOOLEAN :
       \E r \in { ExtractRun(fs, out_inside, disk, module_info, file_index,
                             total_size, now + 1, flushed) } :
          /\ flushed \/ r.selfread
          /\ disk' = r.disk
          /\ module_info' = r.module_info
          /\ file_index' = r.file_index
          /\ total_size' = r.total_size
          /\ history' = Append(history,
                          [fresh |-> calls = 0, exc |-> r.exc, disk |-> r.disk])
  /\ now' = now + 1
  /\ calls' = calls + 1
  /\ UNCHANGED << fs, out_inside >>

Next == New \/ Extract

Spec == Init /\ [][Next]_vars

----------------------------------------------------------------------------
(* Reading the written files back *)

\* str.split("/") of a written path
RECURSIVE SplitPath(_)
SplitPath(str) ==
  LET slashes == {i \in 1..Len(str) : str[i] = "/"}
  IN  IF slashes = {} THEN <<str>>
      ELSE LET i == CHOOSE j \in slashes : \A k \in slashes : j <= k
           IN  <<SubSeq(str, 1, i - 1)>> \o SplitPath(SubSeq(str, i + 1, Len(str)))

\* the order of a depth-first walk that takes the entries of a directory by
\* name: an entry comes after its parent and before its parent's later
\* siblings
RECURSIVE PathLess(_, _)
PathLess(p, q) ==
  IF q = <<>> THEN FALSE
  ELSE IF p = <<>> THEN TRUE
  ELSE IF Head(p) = Head(q) THEN PathLess(Tail(p), Tail(q))
  ELSE StrLess(Head(p), Head(q))

RECURSIVE InWalkOrder(_)
InWalkOrder(S) ==
  IF S = {} THEN <<>>
  ELSE LET q    == CHOOSE x \in S : TRUE
           rest == InWalkOrder(S \ {q})
           n    == Cardinality({i \in 1..Len(rest) : PathLess(rest[i], q)})
       IN  SubSeq(rest, 1, n) \o <<q>> \o SubSeq(rest, n + 1, Len(rest))

\* positions of the FILE lines of a content bundle, in order
RECURSIVE FilePositionsFrom(_, _)
FilePositionsFrom(lines, i) ==
  IF i > Len(lines) THEN <<>>
  ELSE IF lines[i].k = "FILE" THEN <<i>> \o FilePositionsFrom(lines, i + 1)
  ELSE FilePositionsFrom(lines, i + 1)

FilePositions(lines) == FilePositionsFrom(lines, 1)

\* the paths of the sections of a content bundle, in order
SectionPaths(lines) ==
  LET pos == FilePositions(lines)
  IN  [i \in 1..Len(pos) |-> lines[pos[i]].v]

\* what a section holds between its TYPE line and the next separator, for
\* the section whose FILE line is at position i; Closed tells whether that
\* separator is there
SectionEnd(lines, i) ==
  LET seps == {j \in (i + 1)..Len(lines) : lines[j].k = "SEP"}
  IN  IF seps = {} THEN Len(lines) + 1
      ELSE CHOOSE j \in seps : \A k \in seps : j <= k

SectionBody(lines, i) == SubSeq(lines, i + 3, SectionEnd(lines, i) - 1)

SectionClosed(lines, i) == SectionEnd(lines, i) <= Len(lines)

HasLine(body, k) == \E j \in 1..Len(body) : body[j].k = k

\* the calls of extract() so far, and the last of them
Runs == Len(history)
LastRun == history[Runs]
Returned(run) == run.exc = "none"

\* the output directory as the n-th call found it
DiskBefore(n) == IF n = 1 THEN EmptyDisk ELSE history[n - 1].disk

\* the module files that have a section in the written content bundle,
\* each with the position of its section's FILE line
SectionsOfModuleFiles ==
  LET lines == disk.content.lines
      pos   == FilePositions(lines)
  IN  { x \in { [path |-> p, at |-> pos[i]] :
                  p \in ModulePaths \ {Root}, i \in 1..Len(pos) } :
          lines[x.at].v = PathStr(x.path) }

HasRecord(index, p, tag) ==
  \E i \in 1..Len(index) :
     index[i].path = PathStr(p) /\ index[i].checksum.tag = tag

AllowedExtension(name) == Suffix(name) \in INCLUDE_EXTENSIONS

----------------------------------------------------------------------------
(* Claims *)

\* C1: whenever a summary and an index have been written, after one or
\* several extract() calls on the same extractor, the summary's total_files
\* is the number of entries of the index's files list, and the summary's
\* total_size_bytes and the index's total_size are the sum of the sizes of
\* those entries.
C1_SummaryAgreesWithIndex ==
  (disk.summary.exists /\ disk.index.exists) =>
     /\ disk.summary.statistics.total_files = Len(disk.index.files)
     /\ disk.index.total_files = Len(disk.index.files)
     /\ disk.summary.statistics.total_size_bytes = SumSizes(disk.index.files)
     /\ disk.index.total_size = SumSizes(disk.index.files)

\* a second extract() on the same extractor has returned and has written a
\* summary and an index of files with content
C1_SecondRunWritten ==
  /\ calls = 2
  /\ Returned(LastRun)
  /\ disk.summary.exists /\ disk.index.exists
  /\ Len(disk.index.files) > Len(SectionPaths(disk.content.lines))
  /\ disk.summary.statistics.total_size_bytes > 0

\* C2: when extract() has returned, also a second time on the same
\* extractor, the written index and the written content bundle have the
\* same number of entries and the i-th FileRecord's path is the path of the
\* i-th section.
C2_OneRecordPerSection ==
  (Runs > 0 /\ Returned(LastRun)) =>
     LET paths == SectionPaths(disk.content.lines)
         files == disk.index.files
     IN  /\ Len(files) = Len(paths)
         /\ \A i \in 1..Len(paths) : files[i].path = paths[i]

\* the priorities of written paths, each resolved once
RECURSIVE Priorities(_)
Priorities(paths) ==
  IF paths = <<>> THEN <<>>
  ELSE <<GetFilePriority(SplitPath(Head(paths)))>> \o Priorities(Tail(paths))

\* ascending priority, and walk order among equal priorities
InPriorityOrder(paths) ==
  \A pri \in {Priorities(paths)} :
     \A i, j \in 1..Len(paths) :
        i < j => \/ pri[i] < pri[j]
                 \/ /\ pri[i] = pri[j]
                    /\ PathLess(SplitPath(paths[i]), SplitPath(paths[j]))

\* C3: in the content bundle and in the index written by a call of
\* extract(), the files are in ascending order of priority, and files of
\* equal priority are in the order of the depth-first, name-sorted walk.
C3_PriorityOrder ==
  (Runs > 0 /\ Returned(LastRun)) =>
     /\ InPriorityOrder(SectionPaths(disk.content.lines))
     /\ InPriorityOrder([i \in 1..Len(disk.index.files) |->
                           disk.index.files[i].path])

\* a written path passes the filter: no part of it has an excluded name,
\* and its extension is allowed
WrittenPathPasses(str) ==
  LET parts == SplitPath(str)
  IN  /\ \A i \in 1..Len(parts) : ~MatchesExcludePattern(parts[i])
      /\ AllowedExtension(parts[Len(parts)])

\* C4: every entry of the structure listing, of the content bundle and of
\* the index has no excluded name on its path, and every entry that is not
\* a directory has an allowed extension.
C4_EmittedEntriesPassFilter ==
  /\ \A i \in 1..Len(disk.structure.lines) :
        LET line == disk.structure.lines[i]
        IN  /\ line.k \in {"DIR", "ENTRY"} => ~MatchesExcludePattern(line.v.name)
            /\ line.k = "ENTRY" => AllowedExtension(line.v.name)
  /\ \A i \in 1..Len(disk.content.lines) :
        disk.content.lines[i].k = "FILE" =>
           WrittenPathPasses(disk.content.lines[i].v)
  /\ \A i \in 1..Len(file_index) : WrittenPathPasses(file_index[i].path)

\* the entries of the module that are not directories, have an allowed
\* extension and no excluded name on their path, in directories that can be
\* listed
RetainedFiles ==
  { p \in ModulePaths \ {Root} :
      /\ fs[p].kind \in {"file", "other"}
      /\ AllowedExtension(Name(p))
      /\ \A i \in 1..Len(p) : ~MatchesExcludePattern(p[i])
      /\ \A i \in 0..(Len(p) - 1) : fs[SubSeq(p, 1, i)].list = "ok" }

\* C5: no error of a single file makes extract() abort: every call returns
\* with the summary and the index written, and every retained file,
\* the offending one included, has an index entry.
C5_FileErrorsDoNotAbort ==
  Runs > 0 =>
     /\ Returned(LastRun)
     /\ disk.summary.exists /\ disk.index.exists
     /\ \A p \in RetainedFiles :
           \E i \in 1..Len(disk.index.files) :
              disk.index.files[i].path = PathStr(p)

\* C6: a file with an allowed extension whose bytes are not UTF-8 text,
\* once rendered by the extractor, has the binary marker as its whole
\* CONTENT block, and a FileRecord with a checksum of hex digits.
C6_UndecodableFilesGetMarker ==
  \A x \in SectionsOfModuleFiles :
     (calls > 0 /\ fs[x.path].read = "binary" /\ AllowedExtension(Name(x.path))) =>
        /\ SectionBody(disk.content.lines, x.at) = << Line("BINARY", 0) >>
        /\ HasRecord(file_index, x.path, "md5")

\* a text with the time stamps blanked
StripTime(lines) ==
  [i \in 1..Len(lines) |->
     IF lines[i].k = "TIME" THEN Line("TIME", 0) ELSE lines[i]]

SameButTime(f, g) ==
  /\ f.exists = g.exists
  /\ Len(f.lines) = Len(g.lines)
  /\ \A i \in 1..Len(f.lines) : StripTime(f.lines)[i] = StripTime(g.lines)[i]

\* C7: two consecutive calls of extract(), each on a new extractor, with no
\* change made to the module from outside, leave the same structure listing
\* and the same content bundle apart from the time stamps, wherever the
\* output directory lies.
C7_RerunIsIdentical ==
  \A n \in 1..(Runs - 1) :
     (history[n].fresh /\ history[n + 1].fresh) =>
        /\ SameButTime(history[n].disk.structure, history[n + 1].disk.structure)
        /\ SameButTime(history[n].disk.content, history[n + 1].disk.content)

\* C8: a file with an allowed extension that cannot be read, once rendered
\* by the extractor, has an ERROR line in its section, the section is
\* closed by its separator, and its FileRecord has the checksum "error"
\* when the checksum read fails too.
C8_ReadFailureGivesErrorLine ==
  \A x \in SectionsOfModuleFiles :
     (calls > 0 /\ fs[x.path].read = "fail" /\ AllowedExtension(Name(x.path))) =>
        /\ HasLine(SectionBody(disk.content.lines, x.at), "ERROR")
        /\ SectionClosed(disk.content.lines, x.at)
        /\ fs[x.path].cksum = "fail" => HasRecord(file_index, x.path, "error")

\* the tree as the structure walk of the n-th call found it: the listing
\* has just been opened for writing
TreeAtStructureWalk(n) ==
  View(fs, out_inside, [DiskBefore(n) EXCEPT !.structure = TextFile(<<>>)], 0)

\* a permission error in directory dir keeps entry e of dir from being
\* emitted: dir cannot be listed, or the inspection of e or of an earlier
\* entry of dir raises the error
PermissionErrorBefore(t, dir, e) ==
  \/ t[dir].list = "perm"
  \/ \E c \in Children(t, dir) :
        /\ ShouldExclude(t, c) = "PermissionError"
        /\ c = e \/ StrLess(Name(c), Name(e))

\* the entries a walk owes: on the whole path from the root every entry
\* passes the filter, lies in a directory, and has no permission error
\* before it in that directory
OwedEntries(t) ==
  { p \in DOMAIN t \ {Root} :
      /\ t[p].kind # "absent"
      /\ \A i \in 1..Len(p) :
            LET e   == SubSeq(p, 1, i)
                dir == SubSeq(p, 1, i - 1)
            IN  /\ ShouldExclude(t, e) = "False"
                /\ ~PermissionErrorBefore(t, dir, e)
                /\ i < Len(p) => IsDir(t, e) = "True" }

OwedItems(t) ==
  LET paths == InWalkOrder(OwedEntries(t))
  IN  [i \in 1..Len(paths) |->
         IF IsDir(t, paths[i]) = "True" THEN DirItem(paths[i])
         ELSE FileItem(paths[i], t[paths[i]].size)]

\* C9: a permission error met while a directory is walked (on listing it or
\* on inspecting one of its entries) does not end the walk: unless an error
\* of another kind is met, the structure listing holds, in walk order,
\* every entry that passes the filter except the entries of that directory
\* from the failing one on, with what lies below them.
C9_PermissionErrorSkipsRestOfDirectory ==
  Runs > 0 =>
     \A t \in {TreeAtStructureWalk(Runs)} :
        (\A p \in OwedEntries(t) : Stat(t, p) = "ok") =>
           /\ LastRun.exc # "FileNotFoundError"
           /\ LastRun.exc # "PermissionError"
           /\ LastRun.disk.structure.lines
                = StructureHeader(now) \o TreeLines(OwedItems(t))

\* a walk met a permission error on the second entry of models: the first
\* entry and the sibling directory views are listed, the later entries of
\* models are not
C9_WalkWentOnAfterPermissionError ==
  /\ Runs > 0
  /\ LastRun.exc # "FileNotFoundError"
  /\ fs[<<nModels, nPTxt>>].stat = "perm"
  /\ \E i \in 1..Len(disk.structure.lines) :
        disk.structure.lines[i] = Line("ENTRY", [indent |-> 2, name |-> nAPy, kb |-> 20])
  /\ \E i \in 1..Len(disk.structure.lines) :
        disk.structure.lines[i] = Line("DIR", [indent |-> 0, name |-> nViews])
  /\ ~ \E i \in 1..Len(disk.structure.lines) :
        /\ disk.structure.lines[i].k = "DIR"
        /\ disk.structure.lines[i].v.name = nSub

\* r.get("id", "no-id") of the first records
ShownIds(records) ==
  [i \in 1..Min(RecordsShown, Len(records)) |-> RecordId(records[i])]

LinesOf(body, k) == SelectSeq(body, LAMBDA line : line.k = k)

\* C10: for a parseable .xml file with root tag odoo or openerp, the section
\* has a PARSED_INFO block exactly when a record element is found; the
\* block gives the number of records, the ids of the first five with an
\* ellipsis when there are more, and the number of templates when it is not
\* zero.
C10_XmlParsedInfo ==
  \A x \in SectionsOfModuleFiles :
     LET node == fs[x.path]
         body == SectionBody(disk.content.lines, x.at)
         recs == node.info.records
     IN  ( /\ Suffix(Name(x.path)) = <<".", "x", "m", "l">>
           /\ node.read = "text" /\ node.info.parse
           /\ node.info.root \in {"odoo", "openerp"} ) =>
           /\ HasLine(body, "PARSED_INFO") <=> recs # <<>>
           /\ recs # <<>> =>
                /\ LinesOf(body, "RECORDS") = << Line("RECORDS", Len(recs)) >>
                /\ LinesOf(body, "RECORD_IDS")
                     = << Line("RECORD_IDS",
                            [names |-> ShownIds(recs),
                             more  |-> Len(recs) > RecordsShown]) >>
                /\ HasLine(body, "TEMPLATES") <=> node.info.templates # 0
           /\ recs = <<>> => ~HasLine(body, "TEMPLATES")

====
